---- MODULE Spec2Model ----
(***************************************************************************)
(* A model of the frame-sequence video processor (src/Processor-Video) and *)
(* of the stand-alone chroma-key script (src/Chromakey).                   *)
(*                                                                         *)
(* The specifications of the module share its variables:                  *)
(*   SpecKey       chroma_key applied to two equally sized RGBA buffers    *)
(*   SpecResize    resize_to_match applied to two buffers of any size      *)
(*   Spec          one run of processor.main over the working directory    *)
(*   SpecVideo     frames_to_video on a directory with unreadable files    *)
(*   SpecColor     the two hex_to_rgb functions on short strings           *)
(*   SpecNegative  create_negative on an image file                        *)
(*   SpecLight     apply_light and the save of its result                  *)
(*   SpecNames     the sorted listing of zero-padded frame file names      *)
(*   SpecCleanup   cleanup_sequence, called twice, on a directory tree     *)
(***************************************************************************)
EXTENDS Integers, Sequences, FiniteSets, TLC

VARIABLES
    \* chroma_key(fg, bg, keycolor, tolerance, white_protect) and its result;
    \* in a run of main keycolor is key_rgb (light_rgb) of process()
    fg, bg, keycolor, tolerance, white_protect, output,
    \* resize_to_match(img1, img2) and its return value
    img1, img2, ret,
    \* processor.main: the command line, the stage to run next, the loop index
    args, pc, i,
    \* process(): the sorted frame lists, the loop bound, the static background
    fg_frames, bg_frames, frame_count, static_bg,
    \* the frame files of workdir/inputframes and workdir/backgroundframes
    inputframes, backgroundframes,
    \* the frame files of the output sequence in workdir, and the output file
    workdir, outfile,
    \* the three directories of a run: whether each exists, and the entries
    \* it holds besides the frame files of the run's sequence
    dirs,
    \* the two images the current loop iteration opened, before resizing
    opened,
    \* what was printed or logged, and the stages entered so far
    logs, stages

vars == <<fg, bg, keycolor, tolerance, white_protect, output, img1, img2, ret,
          args, pc, i, fg_frames, bg_frames, frame_count, static_bg,
          inputframes, backgroundframes, workdir, outfile, dirs, opened, logs,
          stages>>

keyVars == <<fg, bg, keycolor, tolerance, white_protect, output>>
resizeVars == <<img1, img2, ret>>
mainVars == <<args, i, fg_frames, bg_frames, frame_count, static_bg,
              inputframes, backgroundframes, workdir, outfile, dirs, opened,
              logs, stages>>

(***************************************************************************)
(* Bounds.                                                                 *)
(***************************************************************************)
\* largest width and height of a pixel buffer
MaxDim == 4
\* largest number of frames of a sequence
MaxFrames == 2
\* the longest colour string: two '#' and six digits
MaxColorLen == 8

\* the value of a variable that holds nothing (Python's None)
None == "None"

(***************************************************************************)
(* Pixel buffers.  A pixel is <<R, G, B, A>>, 8 bits a channel; a buffer   *)
(* is [w, h, px] with px its w*h pixels, row-major.                        *)
(***************************************************************************)
Size(img) == <<img.w, img.h>>

Area(img) == img.w * img.h

\* a buffer of one colour
Solid(w, h, p) == [w |-> w, h |-> h, px |-> [k \in 1..(w * h) |-> p]]

\* a buffer whose first pixel is p and whose other pixels are q
Spot(w, h, p, q) ==
    [w |-> w, h |-> h, px |-> [k \in 1..(w * h) |-> IF k = 1 THEN p ELSE q]]

\* the value of a buffer variable that holds no buffer
NoImage == [w |-> 0, h |-> 0, px |-> <<>>]

\* numpy uint8 arithmetic: the result of every operation is reduced modulo 2^8
U8(x) == x % 256

(***************************************************************************)
(* resize_to_match.                                                        *)
(***************************************************************************)
\* img.resize(size, Image.BILINEAR) of a buffer of one colour: interpolating
\* between equal pixels gives that pixel, so the result is the buffer of that
\* colour and of the requested size.  Every buffer resized here is of one
\* colour.
resize(img, size) == Solid(size[1], size[2], img.px[1])

\* resize_to_match that always resizes the second buffer to the first
resize_to_match_second(a, b) ==
    IF Size(a) = Size(b) THEN <<a, b>> ELSE <<a, resize(b, Size(a))>>

\* resize_to_match that resizes img2 when the areas are equal
resize_to_match_tie_second(a, b) ==
    IF Size(a) = Size(b) THEN <<a, b>>
    ELSE IF Area(a) >= Area(b) THEN <<a, resize(b, Size(a))>>
    ELSE <<resize(a, Size(b)), b>>

resize_to_match(a, b) ==
    IF Size(a) = Size(b) THEN <<a, b>>
    ELSE IF Area(a) > Area(b) THEN <<a, resize(b, Size(a))>>
    ELSE <<resize(a, Size(b)), b>>

(***************************************************************************)
(* chroma_key, one pixel at a time as numpy's element-wise operations do.  *)
(***************************************************************************)
\* the radicand of diff: the channels are uint8 and r, g, b are Python ints
\* that fit in uint8, so the differences, their squares and the sum of the
\* squares are all uint8 and wrap
diff_radicand(p, key) ==
    U8(U8(U8(U8(p[1] - key[1]) * U8(p[1] - key[1]))
          + U8(U8(p[2] - key[2]) * U8(p[2] - key[2])))
       + U8(U8(p[3] - key[3]) * U8(p[3] - key[3])))

\* diff < tolerance: diff is the float16 square root of a uint8, tolerance an
\* int; for a radicand s in 0..255 and an integer t, sqrt(s) < t exactly when
\* t > 0 and s < t*t (float16 rounds no such root across an integer)
diff_lt_tolerance(p, key, tol) ==
    tol > 0 /\ diff_radicand(p, key) < tol * tol

\* np.argmax(key_rgb): the first channel that holds the largest value
dominant_channel(key) ==
    CHOOSE c \in 1..3 :
        /\ \A d \in 1..3 : key[d] <= key[c]
        /\ \A d \in 1..(c - 1) : key[d] < key[c]

other_channels(key) ==
    LET dc == dominant_channel(key)
    IN  IF dc = 1 THEN <<2, 3>> ELSE IF dc = 2 THEN <<1, 3>> ELSE <<1, 2>>

\* fg_data[.., other] + 10 is uint8 + int: it wraps for a channel above 245
pixel_dominant(p, key) ==
    LET dc == dominant_channel(key)
        oc == other_channels(key)
    IN  /\ p[dc] > U8(p[oc[1]] + 10)
        /\ p[dc] > U8(p[oc[2]] + 10)

\* three times luma: luma is the float64 mean of R, G, B
luma_sum(p) == p[1] + p[2] + p[3]

\* luma > white_protect, for an integer white_protect
is_bright(p, wp) == luma_sum(p) > 3 * wp

\* mask without the white-protect term
mask_unprotected(p, key, tol, wp) ==
    /\ diff_lt_tolerance(p, key, tol)
    /\ pixel_dominant(p, key)

mask(p, key, tol, wp) ==
    /\ diff_lt_tolerance(p, key, tol)
    /\ pixel_dominant(p, key)
    /\ ~is_bright(p, wp)

\* a replacement that takes the colour of the background and keeps the alpha
\* of the foreground
where_keep_alpha(m, bgp, fgp) ==
    IF m THEN <<bgp[1], bgp[2], bgp[3], fgp[4]>> ELSE fgp

\* np.where(mask[:, :, None], bg_data, fg_data): all four channels of a pixel
\* come from the same buffer
where(m, bgp, fgp) == IF m THEN bgp ELSE fgp

chroma_key(f, b, key, tol, wp) ==
    [w |-> f.w, h |-> f.h,
     px |-> [k \in 1..(f.w * f.h) |->
                where(mask(f.px[k], key, tol, wp), b.px[k], f.px[k])]]

\* the working directory and the two directories main makes under it
Dirs == {"root", "inputframes", "backgroundframes"}

SubDirs == {"inputframes", "backgroundframes"}

NoDirs == [d \in Dirs |-> [exists |-> FALSE, others |-> {}]]

\* the variables of main when no run of main is modelled
MainIdle ==
    /\ dirs = NoDirs
    /\ args = None /\ i = 0
    /\ fg_frames = <<>> /\ bg_frames = <<>> /\ frame_count = 0
    /\ static_bg = NoImage
    /\ inputframes = {} /\ backgroundframes = {}
    /\ workdir = <<>> /\ outfile = [kind |-> "none", frames |-> <<>>]
    /\ opened = <<NoImage, NoImage>> /\ logs = {} /\ stages = <<>>

(***************************************************************************)
(* SpecKey: chroma_key on the buffers process() hands it, which            *)
(* resize_to_match has made equally large.                                 *)
(***************************************************************************)
\* channel values: the extremes, a mid value, and both sides of 245, the
\* largest value to which 10 can be added in 8 bits
ChanVals == {0, 100, 245, 246, 255}

FgPixels == {<<r, g, b, 255>> : r \in ChanVals, g \in ChanVals, b \in ChanVals}

\* the pixels around the first one: opaque red, or opaque green
FgRest == {<<255, 0, 0, 255>>, <<0, 255, 0, 255>>}

\* green, blue, and yellow (two channels share the largest value)
KeyColors == {<<0, 255, 0>>, <<0, 0, 255>>, <<255, 255, 0>>}

\* 30 is the default; 10 is below the largest diff uint8 can hold
Tolerances == {10, 30}

\* 180 is the default; 84 and 85 are on either side of the luma of pure green
WhiteProtects == {84, 85, 180}

\* a solid half-transparent blue background, or one whose pixels all differ
BgImages(w, h) ==
    { Solid(w, h, <<0, 0, 255, 128>>),
      [w |-> w, h |-> h, px |-> [k \in 1..(w * h) |-> <<k, 0, 200, 128>>]] }

KeyInit ==
    /\ \E w \in 1..MaxDim, h \in 1..MaxDim :
          /\ \E p \in FgPixels, q \in FgRest : fg = Spot(w, h, p, q)
          /\ bg \in BgImages(w, h)
    /\ keycolor \in KeyColors
    /\ tolerance \in Tolerances
    /\ white_protect \in WhiteProtects
    /\ output = NoImage
    /\ img1 = NoImage /\ img2 = NoImage /\ ret = <<NoImage, NoImage>>
    /\ pc = "chroma_key"
    /\ MainIdle

\* result = chroma_key(fg, bg, key_rgb, tolerance)
ChromaKey ==
    /\ pc = "chroma_key"
    /\ output' = chroma_key(fg, bg, keycolor, tolerance, white_protect)
    /\ pc' = "returned"
    /\ UNCHANGED <<fg, bg, keycolor, tolerance, white_protect, resizeVars>>
    /\ UNCHANGED mainVars

KeyNext == ChromaKey

SpecKey == KeyInit /\ [][KeyNext]_vars

(***************************************************************************)
(* SpecResize: resize_to_match on two buffers of one colour each.          *)
(***************************************************************************)
SolidImages ==
    { Solid(w, h, p) : w \in 1..MaxDim, h \in 1..MaxDim,
                       p \in {<<0, 255, 0, 255>>, <<0, 0, 255, 128>>} }

ResizeInit ==
    /\ img1 \in SolidImages
    /\ img2 \in SolidImages
    /\ ret = <<NoImage, NoImage>>
    /\ pc = "resize_to_match"
    /\ fg = NoImage /\ bg = NoImage /\ output = NoImage
    /\ keycolor = <<0, 0, 0>> /\ tolerance = 0 /\ white_protect = 0
    /\ MainIdle

\* fg, bg = resize_to_match(fg, bg)
ResizeToMatch ==
    /\ pc = "resize_to_match"
    /\ ret' = resize_to_match(img1, img2)
    /\ pc' = "returned"
    /\ UNCHANGED <<img1, img2, keyVars>>
    /\ UNCHANGED mainVars

ResizeNext == ResizeToMatch

SpecResize == ResizeInit /\ [][ResizeNext]_vars

(***************************************************************************)
(* The colour argument.  A string is the sequence of its characters.       *)
(***************************************************************************)
\* the colour when --color is not given (Python's None)
NoColor == <<"None">>

LowerDigits ==
    <<"0", "1", "2", "3", "4", "5", "6", "7", "8", "9", "a", "b", "c", "d", "e", "f">>

UpperDigits ==
    <<"0", "1", "2", "3", "4", "5", "6", "7", "8", "9", "A", "B", "C", "D", "E", "F">>

IsHexDigit(c) == \E k \in 1..16 : LowerDigits[k] = c \/ UpperDigits[k] = c

HexValue(c) == (CHOOSE k \in 1..16 : LowerDigits[k] = c \/ UpperDigits[k] = c) - 1

\* str.lstrip('#'): every leading '#' is removed
RECURSIVE lstrip(_)
lstrip(str) ==
    IF str # <<>> /\ Head(str) = "#" THEN lstrip(Tail(str)) ELSE str

\* str[a:a+2]: a slice stops at the end of the string
Slice2(str, a) ==
    SubSeq(str, a + 1, IF a + 2 <= Len(str) THEN a + 2 ELSE Len(str))

\* whether int(t, 16) raises ValueError, for a slice t of hexadecimal digits
\* and other letters: it raises on the empty slice and on a non-digit
IntRaises(t) == t = <<>> \/ \E k \in DOMAIN t : ~IsHexDigit(t[k])

\* int(t, 16) of one or two digits
Int16(t) == IF Len(t) = 1 THEN HexValue(t[1]) ELSE 16 * HexValue(t[1]) + HexValue(t[2])

\* tuple(int(hexcolor[i:i+2], 16) for i in (0, 2, 4))
HexPairs(str) ==
    IF \E a \in {0, 2, 4} : IntRaises(Slice2(str, a))
    THEN [raises |-> "ValueError", rgb |-> <<>>]
    ELSE [raises |-> "", rgb |-> <<Int16(Slice2(str, 0)), Int16(Slice2(str, 2)),
                                  Int16(Slice2(str, 4))>>]

\* hex_to_rgb of chromakey.py: no check of the format; None has no lstrip
chroma_hex_to_rgb(hexcolor) ==
    IF hexcolor = NoColor THEN [raises |-> "AttributeError", rgb |-> <<>>]
    ELSE HexPairs(lstrip(hexcolor))

\* hex_to_rgb of negative.py: the regular expression ^[0-9a-fA-F]{6}$
hex_to_rgb(hex_color) ==
    IF hex_color = NoColor THEN [raises |-> "AttributeError", rgb |-> <<>>]
    ELSE IF ~( /\ Len(lstrip(hex_color)) = 6
               /\ \A k \in 1..6 : IsHexDigit(lstrip(hex_color)[k]) )
    THEN [raises |-> "ValueError", rgb |-> <<>>]
    ELSE HexPairs(lstrip(hex_color))

(***************************************************************************)
(* Spec: one run of processor.main.                                        *)
(*                                                                         *)
(* A frame file is the buffer it decodes to, or Unreadable.  The content   *)
(* of an input file is chosen when the file is opened; every file is       *)
(* opened at most once in a run.  The frames of a directory are named by   *)
(* their position in the sorted listing, 0, 1, ...                         *)
(***************************************************************************)
\* a file that cannot be decoded, and the buffer variable after a failed open
Unreadable == [w |-> -1, h |-> -1, px |-> <<>>]

\* the dimensions of the frames of a run: two of equal area, one smaller
FrameSizes == {<<1, 1>>, <<1, 2>>, <<2, 1>>}

\* what a foreground frame file holds: a green buffer
FgFrames == {Solid(sz[1], sz[2], <<0, 255, 0, 255>>) : sz \in FrameSizes}

\* what a background file holds: a blue buffer
BgFrames == {Solid(sz[1], sz[2], <<0, 0, 255, 255>>) : sz \in FrameSizes}

\* the path arguments: an image file, a video file, a directory holding n
\* files of the run's prefix, a path that does not exist, or no argument
Path(kind, n) == [kind |-> kind, n |-> n]

InputFiles ==
    {Path("image", 0), Path("video", 0), Path("missing", 0)}
    \cup {Path("dir", n) : n \in 0..MaxFrames}

BackgroundSequences == InputFiles \cup {Path("none", 0)}

Colors ==
    { <<"#", "0", "0", "F", "F", "0", "0">>,
      <<"0", "0", "F", "F", "z", "z">>,
      NoColor }

Operations == {"negative", "negative-reimage", "chromakey"}

\* is_video_file(path): by the extension alone
is_video_file(path) == path.kind = "video"

\* os.path.isfile that is true of a directory as well
isfile_or_dir(path) == path.kind \in {"image", "dir", "video"}

\* os.path.isfile and os.path.isdir of the path process() is given: the
\* frames of a video are in a directory of the working directory
isfile(path) == path.kind = "image"

isdir(path) == path.kind \in {"dir", "video"}

\* the files of the output sequence: one slot for every index
NoFrames == [k \in 0..(MaxFrames - 1) |-> NoImage]

\* the indices at which the output sequence holds a file
Written(dir) == {k \in DOMAIN dir : dir[k] # NoImage}

\* the output file: absent, an image, or a video of the frames written to it
NoFile == [kind |-> "none", frames |-> <<>>]

ImageFile(img) == [kind |-> "image", frames |-> <<img>>]

VideoFile(frames) == [kind |-> "video", frames |-> frames]

\* sorted(glob.glob(...)) of a set of frame indices
RECURSIVE sorted(_)
sorted(S) ==
    IF S = {} THEN <<>>
    ELSE LET m == CHOOSE x \in S : \A y \in S : x <= y
         IN  <<m>> \o sorted(S \ {m})

Log(msg, n) == logs' = logs \cup {<<msg, n>>}

Enter(stage) == stages' = Append(stages, stage)

\* the stage that follows argument parsing, extraction, processing, reassembly
AfterExtractForeground ==
    IF args.backgroundsequence.kind = "video"
    THEN "ExtractBackgroundFrames" ELSE "ProcessFrames"

\* a main that goes to the processing without extracting the input video
after_main_no_extraction == "ProcessFrames"

AfterMain ==
    IF is_video_file(args.inputfile)
    THEN "ExtractForegroundFrames" ELSE AfterExtractForeground

\* a main that cleans up whatever the flag says
after_reassemble_cleanup == "Cleanup"

AfterReassemble == IF args.cleanup THEN "Cleanup" ELSE "Done"

\* a main that reassembles only when no frame of the loop has failed
after_process_if_no_failure ==
    IF args.outputfile = "video" /\ Written(workdir) = 0..(i - 1)
    THEN "ReassembleVideo" ELSE AfterReassemble

AfterProcess ==
    IF args.outputfile = "video" THEN "ReassembleVideo" ELSE AfterReassemble

Init ==
    /\ args \in [ inputfile : InputFiles,
                   backgroundsequence : BackgroundSequences,
                   outputfile : {"image", "video"},
                   operation : Operations,
                   color : Colors,
                   cleanup : BOOLEAN ]
    /\ pc = "main"
    /\ i = 0
    /\ fg_frames = <<>> /\ bg_frames = <<>> /\ frame_count = 0
    /\ static_bg = NoImage
    /\ inputframes = {} /\ backgroundframes = {}
    /\ workdir = NoFrames /\ outfile = NoFile
    /\ dirs \in {NoDirs, [NoDirs EXCEPT !["root"].exists = TRUE]}
    /\ opened = <<NoImage, NoImage>> /\ logs = {} /\ stages = <<>>
    /\ fg = NoImage /\ bg = NoImage /\ output = NoImage
    /\ keycolor = <<0, 0, 0>> /\ tolerance = 30 /\ white_protect = 180
    /\ img1 = NoImage /\ img2 = NoImage /\ ret = <<NoImage, NoImage>>

\* os.makedirs(path) unless the path exists
ensure_working_directory(tree, path) == [tree EXCEPT ![path].exists = TRUE]

\* main up to the first stage: the arguments, the working directory
Main ==
    /\ pc = "main"
    /\ pc' = AfterMain
    /\ Log("Processing begins", 0)
    /\ Enter("Init")
    /\ dirs' = ensure_working_directory(dirs, "root")
    /\ UNCHANGED <<keyVars, resizeVars, args, i, fg_frames, bg_frames,
                   frame_count, static_bg, inputframes, backgroundframes,
                   workdir, outfile, opened>>

\* what extract_frames prints: the video cannot be opened, or one line for
\* every frame whose write failed
WriteErrors(opens, failed) ==
    IF opens THEN {<<"Error: Failed to write frame", k>> : k \in failed}
    ELSE {<<"Error: Cannot open video", 0>>}

\* extract_frames: the video cannot be opened, or n frames are read and each
\* is written unless its write fails; a failed write makes the result False
\* after the last frame
ExtractForegroundFrames ==
    /\ pc = "ExtractForegroundFrames"
    /\ Enter("ExtractForegroundFrames")
    /\ dirs' = ensure_working_directory(dirs, "inputframes")
    /\ \E opens \in BOOLEAN, n \in 0..MaxFrames :
         \E failed \in SUBSET (0..(n - 1)) :
            /\ inputframes' = IF opens THEN (0..(n - 1)) \ failed ELSE {}
            /\ IF opens /\ failed = {}
               THEN pc' = AfterExtractForeground /\ UNCHANGED logs
               ELSE /\ pc' = "Done"
                    /\ logs' = logs \cup WriteErrors(opens, failed)
                                     \cup {<<"Failed to extract frames from input video.", 0>>}
    /\ UNCHANGED <<keyVars, resizeVars, args, i, fg_frames, bg_frames,
                   frame_count, static_bg, backgroundframes, workdir, outfile,
                   opened>>

ExtractBackgroundFrames ==
    /\ pc = "ExtractBackgroundFrames"
    /\ Enter("ExtractBackgroundFrames")
    /\ dirs' = ensure_working_directory(dirs, "backgroundframes")
    /\ \E opens \in BOOLEAN, n \in 0..MaxFrames :
         \E failed \in SUBSET (0..(n - 1)) :
            /\ backgroundframes' = IF opens THEN (0..(n - 1)) \ failed ELSE {}
            /\ IF opens /\ failed = {}
               THEN pc' = "ProcessFrames" /\ UNCHANGED logs
               ELSE /\ pc' = "Done"
                    /\ logs' = logs \cup WriteErrors(opens, failed)
                                     \cup {<<"Failed to extract frames from background video.", 0>>}
    /\ UNCHANGED <<keyVars, resizeVars, args, i, fg_frames, bg_frames,
                   frame_count, static_bg, inputframes, workdir, outfile,
                   opened>>

(***************************************************************************)
(* chromakey.process.                                                      *)
(***************************************************************************)
\* the frame files under the directory process() is given as inputfile
InputSequence ==
    IF args.inputfile.kind = "video" THEN inputframes
    ELSE IF args.inputfile.kind = "dir" THEN 0..(args.inputfile.n - 1)
    ELSE {}

\* the frame files under the directory process() is given as background
BackgroundSequence ==
    IF args.backgroundsequence.kind = "video" THEN backgroundframes
    ELSE IF args.backgroundsequence.kind = "dir"
    THEN 0..(args.backgroundsequence.n - 1)
    ELSE {}

Min(a, b) == IF a < b THEN a ELSE b

\* frame_count that pairs to the longer of the two sequences
frame_count_longest(use_static, nfg, nbg) ==
    IF use_static THEN nfg ELSE IF nfg > nbg THEN nfg ELSE nbg

\* frame_count = len(fg_frames) if use_static else min(len(fg_frames), len(bg_frames))
chroma_frame_count(use_static, nfg, nbg) ==
    IF use_static THEN nfg ELSE Min(nfg, nbg)

\* process() returns to main without entering the frame loop
ReturnToMain(msg) ==
    /\ pc' = AfterProcess
    /\ Log(msg, 0)
    /\ UNCHANGED <<i, fg_frames, bg_frames, frame_count, static_bg, outfile,
                   opened>>

\* the single-image branch: any failure is caught and printed
ChromaSingleImage ==
    IF ~isfile(args.backgroundsequence)
    THEN ReturnToMain("Error: Background file required for single image input.")
    ELSE \E f \in FgFrames \cup {Unreadable}, b \in BgFrames \cup {Unreadable},
            saved \in BOOLEAN :
            /\ pc' = AfterProcess
            /\ opened' = <<f, IF f = Unreadable THEN NoImage ELSE b>>
            /\ IF /\ f # Unreadable /\ b # Unreadable
                  /\ saved /\ args.outputfile = "image"
               THEN /\ outfile' =
                         ImageFile(chroma_key(resize_to_match(f, b)[1],
                                              resize_to_match(f, b)[2],
                                              chroma_hex_to_rgb(args.color).rgb,
                                              tolerance, white_protect))
                    /\ UNCHANGED logs
               ELSE /\ Log("Error processing single image", 0)
                    /\ UNCHANGED outfile
            /\ UNCHANGED <<i, fg_frames, bg_frames, frame_count, static_bg>>

\* the sequence branch up to the frame loop
ChromaSequence ==
    LET fgs == sorted(InputSequence)
        bgs == sorted(BackgroundSequence)
        kind == args.backgroundsequence.kind
    IN  IF fgs = <<>>
        THEN ReturnToMain("Error: No foreground frames found")
        ELSE IF kind = "none"
        THEN ReturnToMain("Error: No background sequence or static background provided.")
        ELSE IF kind = "missing"
        THEN ReturnToMain("Error: Invalid background path")
        ELSE IF kind = "image"
        THEN \/ ReturnToMain("Error loading static background")
             \/ \E b \in BgFrames \cup {Unreadable} :
                   /\ static_bg' = b
                   /\ fg_frames' = fgs
                   /\ bg_frames' = <<>>
                   /\ frame_count' = chroma_frame_count(TRUE, Len(fgs), 0)
                   /\ i' = 0
                   /\ pc' = "FrameLoop"
                   /\ Log("Using static background image", 0)
                   /\ UNCHANGED <<outfile, opened>>
        ELSE IF bgs = <<>>
        THEN ReturnToMain("Error: No background sequence found")
        ELSE /\ fg_frames' = fgs
             /\ bg_frames' = bgs
             /\ frame_count' = chroma_frame_count(FALSE, Len(fgs), Len(bgs))
             /\ i' = 0
             /\ pc' = "FrameLoop"
             /\ Log("Using background frame sequence", 0)
             /\ UNCHANGED <<static_bg, outfile, opened>>

\* process() of chromakey.py up to its frame loop; an exception of
\* hex_to_rgb is not caught and ends main
ChromaProcess ==
    /\ pc = "ProcessFrames"
    /\ args.operation = "chromakey"
    /\ Enter("ProcessFrames")
    /\ IF chroma_hex_to_rgb(args.color).raises # ""
       THEN /\ pc' = "Crashed"
            /\ Log(chroma_hex_to_rgb(args.color).raises, 0)
            /\ UNCHANGED <<keycolor, i, fg_frames, bg_frames, frame_count,
                           static_bg, outfile, opened>>
       ELSE /\ keycolor' = chroma_hex_to_rgb(args.color).rgb
            /\ IF isfile(args.inputfile) THEN ChromaSingleImage ELSE ChromaSequence
    /\ UNCHANGED <<fg, bg, tolerance, white_protect, output, resizeVars, args, dirs,
                   inputframes, backgroundframes, workdir>>

\* the index at which the frame loop writes the result of iteration n
out_index_compact(n, dir) == Cardinality(Written(dir))

\* out_path = os.path.join(workdir, f"{sequence_prefix}_{i:04}.png")
out_index(n, dir) == n

\* the frame loop goes on after iteration n, or process() returns
loop_stops_on_failure(n, count, failed) ==
    IF n + 1 = count \/ failed THEN AfterProcess ELSE "FrameLoop"

LoopNext(n, count, failed) ==
    IF n + 1 = count THEN AfterProcess ELSE "FrameLoop"

\* the progress line of iteration n: on frame 0, every 30th and the last
Progress(n, count) ==
    IF n % 30 = 0 \/ n = count - 1 THEN {<<"Processing frame", n + 1>>} ELSE {}

\* one iteration of the frame loop of chromakey.process
ChromaFrame ==
    /\ pc = "FrameLoop"
    /\ args.operation = "chromakey"
    /\ i < frame_count
    /\ \E f \in FgFrames \cup {Unreadable},
          b \in (IF static_bg # NoImage THEN {static_bg}
                 ELSE BgFrames \cup {Unreadable}),
          saved \in BOOLEAN :
          LET done == f # Unreadable /\ b # Unreadable /\ saved
              r == resize_to_match(f, b)
          IN  /\ opened' = <<f, IF f = Unreadable THEN NoImage ELSE b>>
              /\ IF done
                 THEN /\ workdir' =
                           [workdir EXCEPT ![out_index(i, workdir)] =
                               chroma_key(r[1], r[2], keycolor, tolerance,
                                          white_protect)]
                      /\ logs' = logs \cup Progress(i, frame_count)
                 ELSE /\ UNCHANGED workdir
                      /\ logs' = logs \cup Progress(i, frame_count)
                                       \cup {<<"Frame failed", i>>}
              /\ pc' = LoopNext(i, frame_count, ~done)
    /\ i' = i + 1
    /\ UNCHANGED <<keyVars, resizeVars, args, dirs, fg_frames, bg_frames,
                   frame_count, static_bg, inputframes, backgroundframes,
                   outfile, stages>>

(***************************************************************************)
(* negative.py: create_negative, apply_light and process.                  *)
(***************************************************************************)
\* img.convert('L'): the ITU-R 601-2 luma in 16-bit fixed point, rounded
luminance(p) == (p[1] * 19595 + p[2] * 38470 + p[3] * 7471 + 32768) \div 65536

\* create_negative that takes the alpha from the inverted image
create_negative_pixel_of_inverted(p) ==
    <<255 - p[1], 255 - p[2], 255 - p[3],
      luminance(<<255 - p[1], 255 - p[2], 255 - p[3]>>)>>

\* the inverted RGB channels, and the luminance of the original as alpha
create_negative_pixel(p) ==
    <<255 - p[1], 255 - p[2], 255 - p[3], luminance(p)>>

create_negative(img) ==
    [w |-> img.w, h |-> img.h,
     px |-> [k \in DOMAIN img.px |-> create_negative_pixel(img.px[k])]]

\* Image.alpha_composite over an opaque layer: the destination where the
\* source alpha is 0, else (src * a + dst * (255 - a)) / 255 rounded to the
\* nearest integer
alpha_composite(dst, src, a) ==
    IF a = 0 THEN dst ELSE (2 * (src * a + dst * (255 - a)) + 255) \div 510

\* the pairs <<v, alpha>> for which the float32 product v * (255 / alpha) is
\* just below the integer 255 * v / alpha, so that truncation loses one
Float32Low ==
    { <<7, 7>>, <<14, 14>>, <<28, 28>>, <<41, 41>>, <<56, 56>>, <<63, 63>>,
      <<82, 82>>, <<91, 91>>, <<101, 101>>, <<112, 112>>, <<113, 113>>,
      <<119, 119>>, <<123, 123>>, <<126, 126>>, <<163, 163>>, <<164, 164>>,
      <<182, 182>>, <<191, 191>>, <<197, 197>>, <<202, 202>>, <<207, 207>>,
      <<209, 209>>, <<223, 223>>, <<224, 224>>, <<226, 226>>, <<229, 229>>,
      <<233, 233>>, <<79, 237>>, <<158, 237>>, <<237, 237>>, <<238, 238>>,
      <<239, 239>>, <<246, 246>>, <<252, 252>> }

\* the correction with np.divide(255.0, alpha_array) unguarded: the scale is
\* inf where alpha is 0, and inf * v is clipped to 255 (nan, for v = 0, to 0)
corrected_unguarded(v, a) ==
    IF a = 0 THEN (IF v = 0 THEN 0 ELSE 255)
    ELSE IF <<v, a>> \in Float32Low THEN (255 * v) \div a - 1
    ELSE Min(255, (255 * v) \div a)

\* np.clip(v * scale_factor, 0, 255).astype(np.uint8) in float32, where
\* scale_factor is 255 / alpha, and 0 where alpha is 0
corrected(v, a) ==
    IF a = 0 THEN 0
    ELSE IF <<v, a>> \in Float32Low THEN (255 * v) \div a - 1
    ELSE Min(255, (255 * v) \div a)

apply_light_pixel(p, light) ==
    [c \in 1..3 |->
        corrected(255 - alpha_composite(light[c], p[c], p[4]), p[4])]

\* negative_image.mode == 'RGBA': a buffer of four channels per pixel (None,
\* or a buffer of another mode, is not)
IsRGBA(img) == img.px # <<>> /\ Len(img.px[1]) = 4

\* apply_light without its check of the mode: a pixel of another mode is
\* converted, a missing alpha channel being opaque
apply_light_any_mode(negative_image, light_color_rgb) ==
    LET rgba(p) == IF Len(p) = 4 THEN p ELSE <<p[1], p[2], p[3], 255>>
    IN  [w |-> negative_image.w, h |-> negative_image.h,
         px |-> [k \in DOMAIN negative_image.px |->
                    apply_light_pixel(rgba(negative_image.px[k]),
                                      light_color_rgb)]]

\* apply_light: None for an input that is not an RGBA image, else an RGB
\* buffer of the same dimensions
apply_light(negative_image, light_color_rgb) ==
    IF ~IsRGBA(negative_image) THEN NoImage
    ELSE [w |-> negative_image.w, h |-> negative_image.h,
          px |-> [k \in DOMAIN negative_image.px |->
                     apply_light_pixel(negative_image.px[k], light_color_rgb)]]

\* what the frame loop saves for a frame it has read
NegativeResult(f) ==
    IF args.operation = "negative" THEN create_negative(f)
    ELSE apply_light(create_negative(f), keycolor)

\* the sequence branch of negative.process up to the frame loop;
\* hex_to_rgb's ValueError is caught, an AttributeError is not
NegativeSequence ==
    LET frame_paths == sorted(InputSequence)
        light == hex_to_rgb(args.color)
    IN  IF frame_paths = <<>>
        THEN ReturnToMain("No frames found") /\ UNCHANGED keycolor
        ELSE IF args.operation = "negative-reimage" /\ light.raises = "ValueError"
        THEN ReturnToMain("Color Error") /\ UNCHANGED keycolor
        ELSE IF args.operation = "negative-reimage" /\ light.raises # ""
        THEN /\ pc' = "Crashed"
             /\ Log(light.raises, 0)
             /\ UNCHANGED <<keycolor, i, fg_frames, bg_frames, frame_count,
                            static_bg, outfile, opened>>
        ELSE /\ fg_frames' = frame_paths
             /\ frame_count' = Len(frame_paths)
             /\ keycolor' = IF args.operation = "negative-reimage"
                            THEN light.rgb ELSE keycolor
             /\ i' = 0
             /\ pc' = "FrameLoop"
             /\ UNCHANGED <<bg_frames, static_bg, outfile, opened, logs>>

\* the single-image branch of negative.process: create_negative first, then
\* for negative-reimage hex_to_rgb and apply_light, then save_image
NegativeSingleImage ==
    \E f \in (IF isfile(args.inputfile) THEN FgFrames \cup {Unreadable}
               ELSE {Unreadable}),
       saved \in BOOLEAN :
        LET light == hex_to_rgb(args.color)
            reimage == args.operation = "negative-reimage"
        IN  /\ opened' = <<f, NoImage>>
            /\ UNCHANGED <<i, fg_frames, bg_frames, frame_count, static_bg>>
            /\ IF f = Unreadable
               THEN /\ pc' = AfterProcess
                    /\ Log("Error during negative creation", 0)
                    /\ UNCHANGED <<keycolor, outfile>>
               ELSE IF reimage /\ light.raises = "ValueError"
               THEN /\ pc' = AfterProcess
                    /\ Log("Color Error", 0)
                    /\ UNCHANGED <<keycolor, outfile>>
               ELSE IF reimage /\ light.raises # ""
               THEN /\ pc' = "Crashed"
                    /\ Log(light.raises, 0)
                    /\ UNCHANGED <<keycolor, outfile>>
               ELSE /\ pc' = AfterProcess
                    /\ keycolor' = IF reimage THEN light.rgb ELSE keycolor
                    /\ IF saved /\ args.outputfile = "image"
                       THEN /\ outfile' =
                                 ImageFile(IF reimage
                                           THEN apply_light(create_negative(f),
                                                            light.rgb)
                                           ELSE create_negative(f))
                            /\ UNCHANGED logs
                       ELSE /\ Log("Error saving image", 0)
                            /\ UNCHANGED outfile

\* process() of negative.py up to its frame loop
NegativeProcess ==
    /\ pc = "ProcessFrames"
    /\ args.operation \in {"negative", "negative-reimage"}
    /\ Enter("ProcessFrames")
    /\ IF isdir(args.inputfile) THEN NegativeSequence ELSE NegativeSingleImage
    /\ UNCHANGED <<fg, bg, tolerance, white_protect, output, resizeVars, args, dirs,
                   inputframes, backgroundframes, workdir>>

\* one iteration of a frame loop of negative.process: create_negative and
\* save_image report a failure by their result and the loop goes on
NegativeFrame ==
    /\ pc = "FrameLoop"
    /\ args.operation \in {"negative", "negative-reimage"}
    /\ i < frame_count
    /\ \E f \in FgFrames \cup {Unreadable}, saved \in BOOLEAN :
          /\ opened' = <<f, NoImage>>
          /\ IF f # Unreadable /\ saved
             THEN /\ workdir' = [workdir EXCEPT ![out_index(i, workdir)] =
                                     NegativeResult(f)]
                  /\ UNCHANGED logs
             ELSE /\ UNCHANGED workdir
                  /\ Log(IF f = Unreadable THEN "Error during negative creation"
                         ELSE "Error saving image", i)
          /\ pc' = LoopNext(i, frame_count, ~(f # Unreadable /\ saved))
    /\ i' = i + 1
    /\ UNCHANGED <<keyVars, resizeVars, args, dirs, fg_frames, bg_frames,
                   frame_count, static_bg, inputframes, backgroundframes,
                   outfile, stages>>

(***************************************************************************)
(* frames_to_video, cleanup_sequence, and the specification.               *)
(***************************************************************************)
\* cv2.imread gives None for a file it cannot decode
Readable(frame) == frame # Unreadable

\* the files of a directory that match the pattern, in sorted order
Images(dir) == [k \in 1..Cardinality(Written(dir)) |-> dir[sorted(Written(dir))[k]]]

\* frames_to_video: False when no file matches; the first file gives the
\* dimensions, and first_frame.shape raises when it cannot be decoded;
\* else every readable frame, in sorted order, is written to the video
frames_to_video(dir) ==
    IF Images(dir) = <<>>
    THEN [ok |-> FALSE, raises |-> "", video |-> NoFile]
    ELSE IF ~Readable(Images(dir)[1])
    THEN [ok |-> FALSE, raises |-> "AttributeError", video |-> NoFile]
    ELSE [ok |-> TRUE, raises |-> "",
          video |-> VideoFile(SelectSeq(Images(dir), Readable))]

\* the warnings of frames_to_video: one for every frame it skips
Skipped(dir) ==
    {<<"Warning: Skipping unreadable frame", k>> : k \in {n \in Written(dir) : ~Readable(dir[n])}}

ReassembleVideo ==
    /\ pc = "ReassembleVideo"
    /\ Enter("ReassembleVideo")
    /\ IF frames_to_video(workdir).raises # ""
       THEN /\ pc' = "Crashed"
            /\ logs' = logs \cup {<<"Reassembling frames into output video...", 0>>,
                                   <<frames_to_video(workdir).raises, 0>>}
            /\ UNCHANGED outfile
       ELSE IF frames_to_video(workdir).ok
       THEN /\ outfile' = frames_to_video(workdir).video
            /\ pc' = AfterReassemble
            /\ logs' = logs \cup {<<"Reassembling frames into output video...", 0>>}
                             \cup Skipped(workdir)
       ELSE /\ pc' = "Done"
            /\ logs' = logs \cup {<<"Reassembling frames into output video...", 0>>,
                                   <<"Error: No images found with prefix", 0>>,
                                   <<"Failed to assemble output video.", 0>>}
            /\ UNCHANGED outfile
    /\ UNCHANGED <<keyVars, resizeVars, args, dirs, i, fg_frames, bg_frames,
                   frame_count, static_bg, inputframes, backgroundframes,
                   workdir, opened>>

(***************************************************************************)
(* fileio.py: the files of a sequence and cleanup_sequence.  A file name   *)
(* is the sequence of its parts.                                           *)
(***************************************************************************)
\* output_sequence_prefix of the run
sequence_prefix == "prefix"

\* f"{i:04}"
Index4 == <<"0000", "0001", "0002", "0003", "0004", "0005", "0006", "0007">>

\* f"{sequence_prefix}_{i:04}.png"
FrameName(k) == <<sequence_prefix, "_", Index4[k + 1], ".png">>

\* the entries a directory may hold besides the frames of the sequence: a
\* frame of the sequence of prefix "prefix_label", and a file of another kind
ForeignFrame == <<sequence_prefix, "_", "label", "_", "0001", ".png">>

OtherFile == <<"notes", ".txt">>

OtherEntries == {ForeignFrame, OtherFile}

\* a name matches the pattern f"{prefix}_*.png"
Matches(name) ==
    /\ Len(name) >= 3
    /\ name[1] = sequence_prefix /\ name[2] = "_"
    /\ name[Len(name)] = ".png"

\* the directory tree: for each directory whether it exists and its files
Tree(out, inp, back, ds) ==
    [d \in Dirs |->
        [exists |-> ds[d].exists,
         files |-> ds[d].others \cup
                   { FrameName(k) : k \in (IF d = "root" THEN Written(out)
                                           ELSE IF d = "inputframes" THEN inp
                                           ELSE back) }]]

\* os.listdir(path): the files, and under the root the sub-directories
listdir(tree, path) ==
    tree[path].files \cup
    (IF path = "root" THEN {<<d>> : d \in {x \in SubDirs : tree[x].exists}} ELSE {})

\* get_sequence_files(directory, prefix)
get_sequence_files(tree, path) == {n \in tree[path].files : Matches(n)}

\* for f in files: os.remove(f), which fails for the paths in stuck
remove_files(tree, path, stuck) ==
    [tree EXCEPT ![path].files = {n \in @ : ~Matches(n) \/ <<path, n>> \in stuck}]

\* cleanup_sequence that removes a directory whatever it still holds
rmdir_always(tree, path, stuck) ==
    IF tree[path].exists /\ <<path>> \notin stuck
    THEN [tree EXCEPT ![path] = [exists |-> FALSE, files |-> {}]]
    ELSE tree

\* if os.path.isdir(path) and not os.listdir(path): os.rmdir(path)
rmdir_if_empty(tree, path, stuck) ==
    IF tree[path].exists /\ listdir(tree, path) = {} /\ <<path>> \notin stuck
    THEN [tree EXCEPT ![path].exists = FALSE]
    ELSE tree

\* cleanup_sequence that gives up a directory at its first failed deletion
clean_path_abort(tree, path, stuck) ==
    IF ~tree[path].exists \/ \E n \in get_sequence_files(tree, path) : <<path, n>> \in stuck
    THEN tree
    ELSE rmdir_if_empty(remove_files(tree, path, stuck), path, stuck)

\* one turn of the loop over paths_to_check
clean_path(tree, path, stuck) ==
    IF ~tree[path].exists THEN tree
    ELSE rmdir_if_empty(remove_files(tree, path, stuck), path, stuck)

\* what one turn of the loop logs
path_logs(tree, path, stuck) ==
    IF ~tree[path].exists THEN {}
    ELSE (IF get_sequence_files(tree, path) = {}
          THEN {<<"No files found for prefix", path, <<>>>>} ELSE {})
         \cup {<<"Failed to delete file", path, n>> :
                  n \in {f \in get_sequence_files(tree, path) : <<path, f>> \in stuck}}
         \cup (IF listdir(remove_files(tree, path, stuck), path) # {} THEN {}
               ELSE IF <<path>> \in stuck
               THEN {<<"Failed to delete directory", path, <<>>>>}
               ELSE {<<"Deleted empty directory", path, <<>>>>})

\* what the last check of the root logs
root_logs(tree, stuck) ==
    IF ~tree["root"].exists \/ listdir(tree, "root") # {} THEN {}
    ELSE IF <<"root">> \in stuck
    THEN {<<"Failed to delete working directory", "root", <<>>>>}
    ELSE {<<"Deleted empty working directory", "root", <<>>>>}

\* cleanup_sequence without the check of the root after the loop
cleanup_sequence_loop_only(tree, stuck) ==
    LET t1 == clean_path(tree, "root", stuck)
        t2 == clean_path(t1, "inputframes", stuck)
        t3 == clean_path(t2, "backgroundframes", stuck)
    IN  [tree |-> t3,
         logs |-> path_logs(tree, "root", stuck)
                  \cup path_logs(t1, "inputframes", stuck)
                  \cup path_logs(t2, "backgroundframes", stuck)]

\* cleanup_sequence(root_dir, prefix): the tree it leaves and what it logs
cleanup_sequence(tree, stuck) ==
    LET t1 == clean_path(tree, "root", stuck)
        t2 == clean_path(t1, "inputframes", stuck)
        t3 == clean_path(t2, "backgroundframes", stuck)
    IN  [tree |-> rmdir_if_empty(t3, "root", stuck),
         logs |-> path_logs(tree, "root", stuck)
                  \cup path_logs(t1, "inputframes", stuck)
                  \cup path_logs(t2, "backgroundframes", stuck)
                  \cup root_logs(t3, stuck)]

\* the deletions that fail in one call: none, or those of one path, a
\* matched file or a directory
StuckChoices(tree) ==
    {{}} \cup {{<<x>>} : x \in {y \in Dirs : tree[y].exists}}
         \cup UNION {{{<<x, n>>} : n \in get_sequence_files(tree, x)} : x \in Dirs}

\* the directories of the run as cleanup_sequence leaves them
Cleaned(after) ==
    /\ workdir' = [k \in DOMAIN workdir |->
                      IF FrameName(k) \in after["root"].files
                      THEN workdir[k] ELSE NoImage]
    /\ inputframes' =
           {k \in inputframes : FrameName(k) \in after["inputframes"].files}
    /\ backgroundframes' =
           {k \in backgroundframes :
                FrameName(k) \in after["backgroundframes"].files}
    /\ dirs' = [d \in Dirs |->
                   [exists |-> after[d].exists,
                    others |-> after[d].files \cap OtherEntries]]

\* main: cleanup_sequence(args.workingdirectory, output_sequence_prefix)
Cleanup ==
    /\ pc = "Cleanup"
    /\ Enter("Cleanup")
    /\ LET tree == Tree(workdir, inputframes, backgroundframes, dirs)
       IN  \E stuck \in StuckChoices(tree) :
              LET r == cleanup_sequence(tree, stuck)
              IN  /\ Cleaned(r.tree)
                  /\ logs' = logs \cup r.logs
                        \cup {<<"Temporary sequence files cleaned up", 0>>}
    /\ pc' = "Done"
    /\ UNCHANGED <<keyVars, resizeVars, args, i, fg_frames, bg_frames,
                   frame_count, static_bg, outfile, opened>>

Next ==
    \/ Main
    \/ ExtractForegroundFrames
    \/ ExtractBackgroundFrames
    \/ ChromaProcess
    \/ ChromaFrame
    \/ NegativeProcess
    \/ NegativeFrame
    \/ ReassembleVideo
    \/ Cleanup

Spec == Init /\ [][Next]_vars

(***************************************************************************)
(* SpecVideo: frames_to_video on a directory whose files of the sequence   *)
(* are frames of one size, some of which cannot be decoded.                *)
(***************************************************************************)
\* what a file of the output sequence holds: a 1x1 frame of some colour
VideoFrames ==
    { Solid(1, 1, p) : p \in { <<0, 255, 0, 255>>, <<0, 0, 255, 255>>,
                               <<255, 0, 0, 255>>, <<255, 255, 255, 255>>,
                               <<0, 0, 0, 255>>, <<128, 128, 128, 255>> } }

VideoInit ==
    /\ workdir \in [0..(MaxFrames - 1) -> VideoFrames \cup {Unreadable, NoImage}]
    /\ outfile = NoFile
    /\ dirs = [NoDirs EXCEPT !["root"].exists = TRUE]
    /\ pc = "frames_to_video"
    /\ args = None /\ i = 0
    /\ fg_frames = <<>> /\ bg_frames = <<>> /\ frame_count = 0
    /\ static_bg = NoImage
    /\ inputframes = {} /\ backgroundframes = {}
    /\ opened = <<NoImage, NoImage>> /\ logs = {} /\ stages = <<>>
    /\ fg = NoImage /\ bg = NoImage /\ output = NoImage
    /\ keycolor = <<0, 0, 0>> /\ tolerance = 0 /\ white_protect = 0
    /\ img1 = NoImage /\ img2 = NoImage /\ ret = <<NoImage, NoImage>>

\* frames_to_video(args.workingdirectory, output_sequence_prefix, args.outputfile)
FramesToVideo ==
    /\ pc = "frames_to_video"
    /\ outfile' = frames_to_video(workdir).video
    /\ pc' = IF frames_to_video(workdir).raises # "" THEN "raised"
             ELSE IF frames_to_video(workdir).ok THEN "returned True"
             ELSE "returned False"
    /\ logs' = IF frames_to_video(workdir).ok THEN Skipped(workdir)
               ELSE IF frames_to_video(workdir).raises # ""
               THEN {<<frames_to_video(workdir).raises, 0>>}
               ELSE {<<"Error: No images found with prefix", 0>>}
    /\ UNCHANGED <<keyVars, resizeVars, args, dirs, i, fg_frames, bg_frames,
                   frame_count, static_bg, inputframes, backgroundframes,
                   workdir, opened, stages>>

VideoNext == FramesToVideo

SpecVideo == VideoInit /\ [][VideoNext]_vars

(***************************************************************************)
(* SpecNegative: create_negative on an image file.                         *)
(***************************************************************************)
\* the pixels of the source: opaque ones of every channel value, a
\* transparent white and a half-transparent black
SourcePixels == FgPixels \cup {<<255, 255, 255, 0>>, <<0, 0, 0, 128>>}

\* the pixels around the first one: opaque black, or opaque green
SourceRest == {<<0, 0, 0, 255>>, <<0, 255, 0, 255>>}

NegativeInit ==
    /\ \/ \E w \in 1..MaxDim, h \in 1..MaxDim :
             \E p \in SourcePixels, q \in SourceRest : fg = Spot(w, h, p, q)
       \/ fg = Unreadable
    /\ output = NoImage
    /\ pc = "create_negative"
    /\ bg = NoImage
    /\ keycolor = <<0, 0, 0>> /\ tolerance = 0 /\ white_protect = 0
    /\ img1 = NoImage /\ img2 = NoImage /\ ret = <<NoImage, NoImage>>
    /\ MainIdle

\* img = create_negative(inputfile): None when the file cannot be read
CreateNegative ==
    /\ pc = "create_negative"
    /\ output' = IF Readable(fg) THEN create_negative(fg) ELSE NoImage
    /\ pc' = "returned"
    /\ UNCHANGED <<fg, bg, keycolor, tolerance, white_protect, resizeVars>>
    /\ UNCHANGED mainVars

NegativeNext == CreateNegative

SpecNegative == NegativeInit /\ [][NegativeNext]_vars

(***************************************************************************)
(* SpecLight: apply_light and the save that follows it in                  *)
(* negative.process, for a sequence of negatives or for a single one.      *)
(***************************************************************************)
\* the pixels of a negative: channel values that meet the float32 exceptions
\* (0 under alpha 7, 170 under alpha 237, with a white light) and every kind
\* of alpha
LightPixels ==
    { <<v, 255 - v, 100, a>> : v \in {0, 170, 255}, a \in {0, 7, 128, 237, 255} }

\* the negatives handed to apply_light: RGBA buffers of one pixel, an RGBA
\* buffer with an opaque and a transparent pixel, and buffers and a missing
\* image that are not RGBA
LightNegatives ==
    { Solid(1, 1, p) : p \in LightPixels }
    \cup { Spot(MaxDim, 1, <<100, 0, 255, 255>>, <<255, 255, 255, 0>>) }
    \cup { Solid(1, 1, <<0, 255, 0>>), Solid(MaxDim, 1, <<255, 100, 0>>), NoImage }

LightColors == { <<255, 255, 255>>, <<0, 0, 0>>, <<255, 128, 0>> }

LightInit ==
    /\ args \in [ inputfile : {Path("dir", 0), Path("image", 0)},
                   operation : {"negative-reimage"} ]
    /\ keycolor \in LightColors
    /\ frame_count = IF isdir(args.inputfile) THEN MaxFrames ELSE 1
    /\ i = 0
    /\ workdir = NoFrames /\ outfile = NoFile
    /\ fg = NoImage /\ output = NoImage
    /\ pc = "apply_light"
    /\ bg = NoImage /\ tolerance = 0 /\ white_protect = 0
    /\ img1 = NoImage /\ img2 = NoImage /\ ret = <<NoImage, NoImage>>
    /\ dirs = NoDirs
    /\ fg_frames = <<>> /\ bg_frames = <<>>
    /\ static_bg = NoImage
    /\ inputframes = {} /\ backgroundframes = {}
    /\ opened = <<NoImage, NoImage>> /\ logs = {} /\ stages = <<>>

\* result = apply_light(img, light_rgb): None, with a printed error, for an
\* input that is not an RGBA image
ApplyLight ==
    /\ pc = "apply_light"
    /\ \E img \in LightNegatives :
          /\ fg' = img
          /\ output' = apply_light(img, keycolor)
          /\ IF ~IsRGBA(img)
             THEN Log("Error: Input must be an RGBA image.", i)
             ELSE UNCHANGED logs
    /\ pc' = "save_image"
    /\ UNCHANGED <<bg, keycolor, tolerance, white_protect, resizeVars, args, i,
                   fg_frames, bg_frames, frame_count, static_bg, inputframes,
                   backgroundframes, workdir, outfile, dirs, opened, stages>>

\* if result: save_image(result, out_path), to index i of the working
\* directory in a sequence and to the output file otherwise; the loop of a
\* sequence goes on with the next frame
SaveResult ==
    /\ pc = "save_image"
    /\ \E saved \in BOOLEAN :
          IF output = NoImage
          THEN UNCHANGED <<workdir, outfile, logs>>
          ELSE IF ~saved
          THEN Log("Error saving image", i) /\ UNCHANGED <<workdir, outfile>>
          ELSE IF isdir(args.inputfile)
          THEN /\ workdir' = [workdir EXCEPT ![out_index(i, workdir)] = output]
               /\ UNCHANGED <<outfile, logs>>
          ELSE /\ outfile' = ImageFile(output)
               /\ UNCHANGED <<workdir, logs>>
    /\ i' = i + 1
    /\ pc' = IF isdir(args.inputfile) /\ i + 1 < frame_count
             THEN "apply_light" ELSE "returned"
    /\ UNCHANGED <<fg, bg, keycolor, tolerance, white_protect, output,
                   resizeVars, args, fg_frames, bg_frames, frame_count,
                   static_bg, inputframes, backgroundframes, dirs, opened,
                   stages>>

LightNext == ApplyLight \/ SaveResult

SpecLight == LightInit /\ [][LightNext]_vars

(***************************************************************************)
(* SpecNames: the frame files of two sequences in the order in which       *)
(* sorted(glob.glob(...)) lists them.                                      *)
(***************************************************************************)
\* the width of the frame index in f"{prefix}_{frame_index:04}.png"
IndexWidth == 4

\* the decimal digits of a number, most significant first
RECURSIVE Digits(_)
Digits(n) == IF n < 10 THEN <<n>> ELSE Append(Digits(n \div 10), n % 10)

\* f"{n}": the digits without any padding
format_unpadded(n) == Digits(n)

\* f"{n:04}": the digits, with zeros in front up to the width
format_04(n) ==
    LET d == Digits(n)
    IN  IF Len(d) >= IndexWidth THEN d
        ELSE [k \in 1..(IndexWidth - Len(d)) |-> 0] \o d

\* the code points of the part of a frame file name that follows the common
\* f"{prefix}_": the digits ("0" is 48) and the "." (46) of ".png"
FileName(n) == [k \in 1..Len(format_04(n)) |-> 48 + format_04(n)[k]] \o <<46>>

\* a < b for two Python strings: the code points at the first difference
\* decide, and a proper prefix is the smaller
RECURSIVE StrLess(_, _)
StrLess(a, b) ==
    IF b = <<>> THEN FALSE
    ELSE IF a = <<>> THEN TRUE
    ELSE IF Head(a) # Head(b) THEN Head(a) < Head(b)
    ELSE StrLess(Tail(a), Tail(b))

\* sorted(glob.glob(pattern)).index(name) in a directory that holds the
\* frames 0..count-1: the number of the files that sort before the name
sorted_index(name, count) ==
    Cardinality({j \in 0..(count - 1) : StrLess(FileName(j), name)})

\* the lengths of the sequences: around every change of the number of
\* digits, up to one frame more than the width can number
SequenceLengths ==
    {1, 2, 11, 101, 1001, 10 ^ IndexWidth, 10 ^ IndexWidth + 1}

\* the frames looked up: the first and the last ones of every number of
\* digits
FrameIndices ==
    {0, 1, 2, 9, 10, 11, 99, 100, 999, 1000, 1001, 10 ^ IndexWidth - 1,
     10 ^ IndexWidth}

NamesInit ==
    /\ args \in [ inputfile : {Path("dir", n) : n \in SequenceLengths},
                   backgroundsequence :
                       {Path("dir", n) : n \in SequenceLengths} ]
    /\ pc = "sorted"
    /\ i = 0
    /\ ret = <<0, 0>>
    /\ frame_count = 0
    /\ fg = NoImage /\ bg = NoImage /\ output = NoImage
    /\ keycolor = <<0, 0, 0>> /\ tolerance = 0 /\ white_protect = 0
    /\ img1 = NoImage /\ img2 = NoImage
    /\ dirs = NoDirs
    /\ fg_frames = <<>> /\ bg_frames = <<>>
    /\ static_bg = NoImage
    /\ inputframes = {} /\ backgroundframes = {}
    /\ workdir = <<>> /\ outfile = NoFile
    /\ opened = <<NoImage, NoImage>> /\ logs = {} /\ stages = <<>>

\* fg_frames and bg_frames of chromakey.process, and frame_count, the
\* length of the shorter one; the frame of index i is looked up in both
SortedFrames ==
    /\ pc = "sorted"
    /\ frame_count' = Min(args.inputfile.n, args.backgroundsequence.n)
    /\ \E n \in FrameIndices :
          /\ n < frame_count'
          /\ i' = n
          /\ ret' = <<sorted_index(FileName(n), args.inputfile.n),
                      sorted_index(FileName(n), args.backgroundsequence.n)>>
    /\ pc' = "listed"
    /\ UNCHANGED <<keyVars, img1, img2, args, fg_frames, bg_frames, static_bg,
                   inputframes, backgroundframes, workdir, outfile, dirs,
                   opened, logs, stages>>

NamesNext == SortedFrames

SpecNames == NamesInit /\ [][NamesNext]_vars

(***************************************************************************)
(* SpecCleanup: cleanup_sequence, called twice, on a working directory     *)
(* that holds frames of the sequence and other entries.                    *)
(***************************************************************************)
CleanupInit ==
    /\ workdir \in [0..(MaxFrames - 1) -> {NoImage, Solid(1, 1, <<0, 255, 0, 255>>)}]
    /\ inputframes \in SUBSET (0..(MaxFrames - 1))
    /\ backgroundframes \in SUBSET (0..(MaxFrames - 1))
    /\ dirs \in [Dirs -> [exists : BOOLEAN, others : SUBSET OtherEntries]]
    /\ \A d \in Dirs :
          /\ dirs[d].exists \/ Tree(workdir, inputframes, backgroundframes, dirs)[d].files = {}
          /\ dirs[d].exists => dirs["root"].exists
    /\ pc = "cleanup_sequence"
    /\ i = 0
    /\ args = None
    /\ fg_frames = <<>> /\ bg_frames = <<>> /\ frame_count = 0
    /\ static_bg = NoImage /\ outfile = NoFile
    /\ opened = <<NoImage, NoImage>> /\ logs = {} /\ stages = <<>>
    /\ fg = NoImage /\ bg = NoImage /\ output = NoImage
    /\ keycolor = <<0, 0, 0>> /\ tolerance = 0 /\ white_protect = 0
    /\ img1 = NoImage /\ img2 = NoImage /\ ret = <<NoImage, NoImage>>

\* one call of cleanup_sequence(root_dir, prefix); logs holds what the
\* latest call logged, stages what each call logged, and i counts the calls
CleanupCall ==
    /\ pc = "cleanup_sequence"
    /\ LET tree == Tree(workdir, inputframes, backgroundframes, dirs)
       IN  \E stuck \in StuckChoices(tree) :
              LET r == cleanup_sequence(tree, stuck)
              IN  /\ Cleaned(r.tree)
                  /\ logs' = r.logs
                  /\ stages' = Append(stages, r.logs)
    /\ i' = i + 1
    /\ pc' = IF i = 0 THEN "cleanup_sequence" ELSE "returned"
    /\ UNCHANGED <<keyVars, resizeVars, args, fg_frames, bg_frames,
                   frame_count, static_bg, outfile, opened>>

CleanupNext == CleanupCall

SpecCleanup == CleanupInit /\ [][CleanupNext]_vars

(***************************************************************************)
(* SpecColor: the two hex_to_rgb functions on the strings of up to         *)
(* MaxColorLen characters over '#', a lower-case and an upper-case         *)
(* hexadecimal digit, and a letter that is not one.                        *)
(***************************************************************************)
ColorChars == {"#", "a", "F", "z"}

ColorStrings == UNION {[1..n -> ColorChars] : n \in 0..MaxColorLen}

ColorInit ==
    /\ args \in [color : ColorStrings]
    /\ keycolor = <<>>
    /\ pc = "hex_to_rgb"
    /\ i = 0
    /\ fg_frames = <<>> /\ bg_frames = <<>> /\ frame_count = 0
    /\ static_bg = NoImage
    /\ inputframes = {} /\ backgroundframes = {}
    /\ workdir = <<>> /\ outfile = NoFile /\ dirs = NoDirs
    /\ opened = <<NoImage, NoImage>> /\ logs = {} /\ stages = <<>>
    /\ fg = NoImage /\ bg = NoImage /\ output = NoImage
    /\ tolerance = 0 /\ white_protect = 0
    /\ img1 = NoImage /\ img2 = NoImage /\ ret = <<NoImage, NoImage>>

\* light_rgb = hex_to_rgb(color) of negative.py
NegativeHexToRgb ==
    /\ pc = "hex_to_rgb"
    /\ keycolor' = hex_to_rgb(args.color).rgb
    /\ pc' = IF hex_to_rgb(args.color).raises = ""
             THEN "negative-reimage: returned" ELSE "negative-reimage: raised"
    /\ UNCHANGED <<fg, bg, tolerance, white_protect, output, resizeVars>>
    /\ UNCHANGED mainVars

\* key_rgb = hex_to_rgb(keycolor) of chromakey.py
ChromaHexToRgb ==
    /\ pc = "hex_to_rgb"
    /\ keycolor' = chroma_hex_to_rgb(args.color).rgb
    /\ pc' = IF chroma_hex_to_rgb(args.color).raises = ""
             THEN "chromakey: returned" ELSE "chromakey: raised"
    /\ UNCHANGED <<fg, bg, tolerance, white_protect, output, resizeVars>>
    /\ UNCHANGED mainVars

ColorNext == NegativeHexToRgb \/ ChromaHexToRgb

SpecColor == ColorInit /\ [][ColorNext]_vars

(***************************************************************************)
(* Properties of chroma_key (under SpecKey).                               *)
(***************************************************************************)
Returned == pc = "returned"

RGB(p) == <<p[1], p[2], p[3]>>

\* the square of the Euclidean distance in RGB space, in unbounded integers
TrueDistSq(p, key) ==
    (p[1] - key[1]) * (p[1] - key[1]) + (p[2] - key[2]) * (p[2] - key[2])
    + (p[3] - key[3]) * (p[3] - key[3])

\* far from the key: the Euclidean distance is at least the tolerance
Far(p, key, tol) == TrueDistSq(p, key) >= tol * tol

\* the dominant channel exceeds both others by more than 10, as integers
IntDominant(p, key) ==
    /\ p[dominant_channel(key)] > p[other_channels(key)[1]] + 10
    /\ p[dominant_channel(key)] > p[other_channels(key)[2]] + 10

\* C1: a foreground pixel whose Euclidean RGB distance to key_color is at
\* least the tolerance is never replaced: the output pixel is the foreground
\* pixel.
C1_FarPixelKept ==
    Returned =>
        \A k \in DOMAIN fg.px :
            Far(fg.px[k], keycolor, tolerance) => output.px[k] = fg.px[k]

\* C2: a foreground pixel that is not key-dominant as integers (its dominant
\* channel does not exceed both others by more than 10) is never replaced.
C2_NonDominantKept ==
    Returned =>
        \A k \in DOMAIN fg.px :
            ~IntDominant(fg.px[k], keycolor) => output.px[k] = fg.px[k]

\* C3: a foreground pixel whose luma (the mean of R, G, B) is strictly above
\* white_protect is never replaced, whatever the key and the tolerance; a
\* pixel whose luma equals white_protect is not protected: it is replaced
\* when it is within tolerance and dominant.
C3_WhiteProtect ==
    Returned =>
        \A k \in DOMAIN fg.px :
            LET p == fg.px[k]
            IN  /\ p[1] + p[2] + p[3] > 3 * white_protect
                    => output.px[k] = p
                /\ ( /\ p[1] + p[2] + p[3] = 3 * white_protect
                     /\ diff_lt_tolerance(p, keycolor, tolerance)
                     /\ pixel_dominant(p, keycolor) )
                    => output.px[k] = bg.px[k]

\* a pixel equal to key_color, dominant and within tolerance, is kept
\* because its luma is above white_protect
C3_Witness ==
    /\ Returned
    /\ \E k \in DOMAIN fg.px :
          /\ RGB(fg.px[k]) = keycolor
          /\ pixel_dominant(fg.px[k], keycolor)
          /\ luma_sum(fg.px[k]) > 3 * white_protect
          /\ output.px[k] = fg.px[k]
          /\ output.px[k] # bg.px[k]

\* C4: a foreground pixel equal to key_color, key-dominant and with luma <=
\* white_protect is replaced by the background pixel at its position for any
\* tolerance > 0, foreground pixels far from key_color are left as
\* foreground, and solid #00FF00 4x4 over solid blue 4x4 with tolerance 30
\* and white_protect 180 gives the solid blue 4x4 buffer.
C4_KeyReplacedFarKept ==
    Returned =>
        /\ \A k \in DOMAIN fg.px :
              /\ ( /\ RGB(fg.px[k]) = keycolor
                   /\ IntDominant(fg.px[k], keycolor)
                   /\ luma_sum(fg.px[k]) <= 3 * white_protect
                   /\ tolerance > 0 )
                  => output.px[k] = bg.px[k]
              /\ Far(fg.px[k], keycolor, tolerance) => output.px[k] = fg.px[k]
        /\ ( /\ fg = Solid(4, 4, <<0, 255, 0, 255>>)
             /\ bg = Solid(4, 4, <<0, 0, 255, 128>>)
             /\ keycolor = <<0, 255, 0>>
             /\ tolerance = 30 /\ white_protect = 180 )
            => output = Solid(4, 4, <<0, 0, 255, 128>>)

\* C5: the mask is hard: every output pixel is, in all four channels, the
\* foreground pixel or the background pixel of its position, and the output
\* has the dimensions of the foreground.
C5_HardMask ==
    Returned =>
        /\ Size(output) = Size(fg)
        /\ DOMAIN output.px = DOMAIN fg.px
        /\ \A k \in DOMAIN fg.px : output.px[k] \in {fg.px[k], bg.px[k]}

\* an output with a replaced and a kept pixel, each differing from the other
\* source in colour and in alpha
C5_Witness ==
    /\ Returned
    /\ \E k, m \in DOMAIN fg.px :
          /\ output.px[k] = bg.px[k] /\ output.px[m] = fg.px[m]
          /\ RGB(bg.px[k]) # RGB(fg.px[k]) /\ bg.px[k][4] # fg.px[k][4]
          /\ RGB(bg.px[m]) # RGB(fg.px[m]) /\ bg.px[m][4] # fg.px[m][4]

Range(seq) == {seq[k] : k \in DOMAIN seq}

\* the frame loop of this run has been entered
LoopEntered == fg_frames # <<>>

\* the dimensions resize_to_match gives two buffers: those of the larger
\* area, and those of the second on equal areas
MatchedSize(f, b) == IF Area(f) > Area(b) THEN Size(f) ELSE Size(b)

\* the frame written by the last iteration of the chroma-key loop, or the
\* single-image output, together with the foreground and the background
\* it was computed from: <<out, f, b>>, or <<>> when there is none
LastKeyed ==
    IF args.operation # "chromakey" THEN <<>>
    ELSE IF outfile.kind = "image" THEN <<outfile.frames[1], opened[1], opened[2]>>
    ELSE IF LoopEntered /\ i > 0 /\ workdir[i - 1] # NoImage
    THEN <<workdir[i - 1], opened[1], opened[2]>>
    ELSE <<>>

\* C6 as claimed: every frame written to the output sequence, and the
\* single-image output, has the width and height of the foreground input
\* frame it was computed from.
C6_OutputHasForegroundSize ==
    LastKeyed # <<>> => Size(LastKeyed[1]) = Size(LastKeyed[2])

\* C6 as amended: every written frame, and the single-image output, has
\* the dimensions of whichever of its foreground and background input has
\* the larger area (of the background when the areas are equal): those of
\* the foreground frame exactly when the two have equal dimensions or the
\* foreground has the strictly larger area.
C6_OutputHasLargerSize ==
    LastKeyed # <<>> =>
        /\ Size(LastKeyed[1]) = MatchedSize(LastKeyed[2], LastKeyed[3])
        /\ Size(LastKeyed[1]) = Size(LastKeyed[2])
            <=> ( \/ Size(LastKeyed[2]) = Size(LastKeyed[3])
                  \/ Area(LastKeyed[2]) > Area(LastKeyed[3]) )

\* a frame written in sequence mode from a foreground smaller than its
\* background: it has the dimensions of the background
C6_Witness ==
    /\ LastKeyed # <<>>
    /\ outfile.kind # "image"
    /\ Area(LastKeyed[2]) < Area(LastKeyed[3])
    /\ Size(LastKeyed[1]) = Size(LastKeyed[3])
    /\ Size(LastKeyed[1]) # Size(LastKeyed[2])

\* C8: in chroma-key sequence mode the loop bound is min(len(fg), len(bg))
\* when the background is a frame-sequence directory and len(fg) when it is
\* a static image; the loop runs the indices 0..count-1 in order and stops
\* after exactly count iterations, and no output frame of index >= count is
\* written.
C8_SequencePairing ==
    (args.operation = "chromakey" /\ LoopEntered) =>
        /\ args.backgroundsequence.kind = "image"
            => frame_count = Len(fg_frames)
        /\ args.backgroundsequence.kind \in {"dir", "video"}
            => frame_count = Min(Len(fg_frames), Len(bg_frames))
        /\ pc = "FrameLoop" => Len(fg_frames) = Cardinality(InputSequence)
        /\ (pc = "FrameLoop" /\ args.backgroundsequence.kind \in {"dir", "video"})
            => Len(bg_frames) = Cardinality(BackgroundSequence)
        /\ i <= frame_count
        /\ pc = "FrameLoop" <=> i < frame_count
        /\ Written(workdir) \subseteq 0..(i - 1)
        /\ \A k \in DOMAIN workdir : k >= frame_count => workdir[k] = NoImage

\* the loop has ended after one iteration: two foreground frames were
\* paired with a background sequence of one frame
C8_Witness ==
    /\ args.operation = "chromakey" /\ LoopEntered
    /\ args.backgroundsequence.kind \in {"dir", "video"}
    /\ Len(fg_frames) = 2 /\ Len(bg_frames) = 1
    /\ pc # "FrameLoop" /\ i = 1 /\ frame_count = 1
    /\ Written(workdir) = {0}

FailureMessages ==
    {"Frame failed", "Error during negative creation", "Error saving image"}

FailureLogged(n, printed) == \E m \in FailureMessages : <<m, n>> \in printed

\* one iteration of a frame loop, for each of the three operations
FrameStep ==
    pc = "FrameLoop" =>
        /\ i' = i + 1
        /\ pc' = IF i + 1 < frame_count THEN "FrameLoop" ELSE AfterProcess
        /\ \A k \in DOMAIN workdir : k # i => workdir'[k] = workdir[k]
        /\ \/ /\ workdir'[i] = NoImage
              /\ FailureLogged(i, logs')
           \/ /\ workdir'[i] # NoImage
              /\ opened'[1] # Unreadable
              /\ ~FailureLogged(i, logs')

\* C9: a failure while processing frame i (unreadable input or failed save)
\* is caught and logged and does not stop the loop: the loop goes on to
\* index i+1 until the loop bound whatever failed, a failed frame writes
\* nothing, a frame that succeeds is written at the output index equal to
\* its position, and no iteration touches the file of another index.
C9_NoFrameLeftBehind == [][FrameStep]_vars

\* frame 0 failed and frame 1 was written at index 1
C9_Witness ==
    /\ LoopEntered /\ i = 2
    /\ workdir[0] = NoImage /\ FailureLogged(0, logs)
    /\ workdir[1] # NoImage /\ ~FailureLogged(1, logs)

\* the frames of the output sequence in index order
FramesInOrder(dir) ==
    [k \in 1..Cardinality(Written(dir)) |-> dir[sorted(Written(dir))[k]]]

ReportedFailure == <<"Failed to assemble output video.", 0>>

\* the end of the frame loop, and the reassembly step
ReassemblyStep ==
    /\ (pc = "FrameLoop" /\ pc' # "FrameLoop" /\ args.outputfile = "video")
        => pc' = "ReassembleVideo"
    /\ pc = "ReassembleVideo" =>
           IF Written(workdir) = {}
           THEN /\ pc' = "Done"
                /\ ReportedFailure \in logs'
                /\ outfile' = outfile
           ELSE /\ outfile' = VideoFile(FramesInOrder(workdir))
                /\ ReportedFailure \notin logs'
                /\ pc' = AfterReassemble

\* C10: when the output is a video the frame loop is always followed by
\* reassembly, whatever number of frames failed; reassembly puts the
\* frames that were written into the video in index order; and when it
\* finds no frame at all it fails and main reports the failure.
C10_ReassemblyAlwaysAttempted == [][ReassemblyStep]_vars

\* every frame of the loop failed, reassembly was attempted and its failure
\* was reported
C10_Witness ==
    /\ LoopEntered /\ i = frame_count /\ frame_count = 2
    /\ FailureLogged(0, logs) /\ FailureLogged(1, logs)
    /\ "ReassembleVideo" \in Range(stages)
    /\ ReportedFailure \in logs
    /\ pc = "Done"

(***************************************************************************)
(* Properties of frames_to_video (under SpecVideo).                        *)
(***************************************************************************)
\* frames_to_video has ended, by a return or by an exception
VideoEnded == pc \in {"returned True", "returned False", "raised"}

\* the readable frames of the directory, in index order
ReadableInOrder(dir) == SelectSeq(Images(dir), Readable)

\* C11: reassembly skips every unreadable frame file with a warning and
\* does not abort: whenever the sequence holds a readable frame, at
\* whatever positions the unreadable files are, the first included,
\* frames_to_video returns True and the video holds the readable frames in
\* index order, with one warning for each skipped file.
C11_UnreadableSkipped ==
    (VideoEnded /\ ReadableInOrder(workdir) # <<>>) =>
        /\ pc = "returned True"
        /\ outfile = VideoFile(ReadableInOrder(workdir))
        /\ logs = Skipped(workdir)

(***************************************************************************)
(* Properties of a run of main: errors (under Spec).                       *)
(***************************************************************************)
\* a stage of main has been entered
Entered(stage) == stage \in Range(stages)

\* the run has ended, by a return of main or by an uncaught exception
Ended == pc \in {"Done", "Crashed"}

\* C12: a failed write of one frame during extraction is skipped and
\* logged, the frames after it are still written, and the run goes on to
\* ProcessFrames with the frames that were written: a run ends before
\* ProcessFrames only when an extraction stage has left no frame at all.
C12_ExtractionRecovers ==
    /\ \A k \in 0..(MaxFrames - 1) :
          <<"Error: Failed to write frame", k>> \in logs
              => k \notin inputframes \/ k \notin backgroundframes
    /\ (Ended /\ ~Entered("ProcessFrames")) =>
          \/ Entered("ExtractBackgroundFrames") /\ backgroundframes = {}
          \/ ~Entered("ExtractBackgroundFrames") /\ inputframes = {}

\* what a run prints or raises on a configuration error: a colour that is
\* not a hex colour, or no usable background for chroma key
ConfigurationErrors ==
    { <<"Color Error", 0>>, <<"ValueError", 0>>, <<"AttributeError", 0>>,
      <<"Error: Background file required for single image input.", 0>>,
      <<"Error: No background sequence or static background provided.", 0>>,
      <<"Error: Invalid background path", 0>> }

ConfigurationError ==
    ~Entered("ReassembleVideo") /\ logs \cap ConfigurationErrors # {}

\* C13: a configuration error is reported before any processing starts: in
\* a run that ends with one, no frame has been extracted from a video, no
\* image has been opened for an effect, and no output frame or output file
\* has been written.
C13_ConfigurationErrorFirst ==
    (Ended /\ ConfigurationError) =>
        /\ inputframes = {} /\ backgroundframes = {}
        /\ opened[1] \in {NoImage, Unreadable}
        /\ Written(workdir) = {}
        /\ outfile = NoFile

(***************************************************************************)
(* Properties of hex_to_rgb (under SpecColor).                             *)
(***************************************************************************)
\* the string without one optional leading '#'
Body(str) == IF str # <<>> /\ Head(str) = "#" THEN Tail(str) ELSE str

\* RRGGBB or #RRGGBB: exactly 6 hexadecimal digits
WellFormed(str) ==
    Len(Body(str)) = 6 /\ \A k \in 1..6 : IsHexDigit(Body(str)[k])

\* the value of the k-th 2-digit pair of a well-formed colour
Pair(str, k) ==
    16 * HexValue(Body(str)[2 * k - 1]) + HexValue(Body(str)[2 * k])

\* C14: for negative-reimage and for chromakey alike, hex_to_rgb accepts
\* the colour if and only if, after one optional leading '#', it is
\* exactly 6 hexadecimal digits; an accepted colour gives the triple of
\* its three 2-digit pairs and a rejected one gives no RGB value.
C14_ColorAccepted ==
    pc # "hex_to_rgb" =>
        IF WellFormed(args.color)
        THEN /\ pc \in {"negative-reimage: returned", "chromakey: returned"}
             /\ keycolor = <<Pair(args.color, 1), Pair(args.color, 2),
                             Pair(args.color, 3)>>
        ELSE /\ pc \in {"negative-reimage: raised", "chromakey: raised"}
             /\ keycolor = <<>>

SingleImageError ==
    <<"Error: Background file required for single image input.", 0>>

\* C19: mode selection for chroma key.  When the path process() is given as
\* input is a single file the run is in single-image mode: the frame loop
\* is never entered and no indexed frame is written to the working
\* directory; a background that is absent or is a directory, that of the
\* frames extracted from a background video included, is reported as an
\* error and no output is written; the output file is written only from
\* one background image file.  When the input is not a single file the
\* run is in sequence mode: no single-image output and no single-image
\* error.
C19_ModeSelection ==
    ( /\ args.operation = "chromakey" /\ Entered("ProcessFrames")
      /\ pc # "Crashed" ) =>
        IF isfile(args.inputfile)
        THEN /\ ~LoopEntered /\ Written(workdir) = {}
             /\ args.backgroundsequence.kind # "image"
                    => SingleImageError \in logs /\ outfile = NoFile
             /\ args.backgroundsequence.kind = "image"
                    => SingleImageError \notin logs
             /\ outfile # NoFile
                    => /\ outfile.kind = "image"
                       /\ Readable(opened[1]) /\ Readable(opened[2])
                       /\ opened[2] # NoImage
        ELSE /\ outfile.kind # "image"
             /\ SingleImageError \notin logs
             /\ LoopEntered \/ pc # "FrameLoop"

\* a single image over a background video: the frames of the video were
\* extracted, the directory was rejected, and the run ended without output
C19_Witness ==
    /\ args.operation = "chromakey" /\ isfile(args.inputfile)
    /\ args.backgroundsequence.kind = "video" /\ backgroundframes # {}
    /\ SingleImageError \in logs
    /\ Ended /\ outfile = NoFile /\ Written(workdir) = {}

(***************************************************************************)
(* Properties of cleanup_sequence (under SpecCleanup).                     *)
(***************************************************************************)
\* the tree before and after a step
Before == Tree(workdir, inputframes, backgroundframes, dirs)

After == Tree(workdir', inputframes', backgroundframes', dirs')

FailureLines ==
    {"Failed to delete file", "Failed to delete directory",
     "Failed to delete working directory"}

\* a call that logged no failed deletion
NoFailure(printed) == \A line \in printed : line[1] \notin FailureLines

\* a call of cleanup_sequence: every matched file it leaves behind is a
\* logged failure, at most one failure is left in the tree, every
\* directory it leaves empty is a logged failure, and the call returns
BestEffortStep ==
    pc = "cleanup_sequence" =>
        /\ i' = i + 1
        /\ \A d \in Dirs : \A n \in get_sequence_files(After, d) :
              <<"Failed to delete file", d, n>> \in logs'
        /\ \A d \in Dirs : \A n \in get_sequence_files(Before, d) :
              <<"Failed to delete file", d, n>> \in logs'
                  => /\ n \in After[d].files
                     /\ \A e \in Dirs : \A m \in get_sequence_files(Before, e) :
                           (<<e, m>> # <<d, n>>) => m \notin After[e].files
        /\ \A d \in Dirs :
              (After[d].exists /\ listdir(After, d) = {}) =>
                  \/ <<"Failed to delete directory", d, <<>>>> \in logs'
                  \/ <<"Failed to delete working directory", d, <<>>>> \in logs'

\* C15: cleanup is best-effort: a failure to delete one matched file or
\* one directory is logged and does not abort the remaining deletions;
\* every other matched file of the root, inputframes and backgroundframes
\* is still deleted, and the call completes without raising.
C15_CleanupBestEffort == [][BestEffortStep]_vars

\* the deletion of frame 0 of the root failed and was logged; frame 1 of
\* the root and the frames of inputframes, which come later, were deleted
C15_Witness ==
    /\ pc = "cleanup_sequence" /\ i = 1
    /\ <<"Failed to delete file", "root", FrameName(0)>> \in logs
    /\ workdir[0] # NoImage
    /\ <<"Deleted empty directory", "inputframes", <<>>>> \in logs
    /\ <<"No files found for prefix", "inputframes", <<>>>> \notin logs
    /\ ~dirs["inputframes"].exists

\* the second call, on a tree the first call has cleaned without failure
SecondCleanupStep ==
    (pc = "cleanup_sequence" /\ i = 1 /\ NoFailure(logs)) =>
        /\ After = Before
        /\ UNCHANGED <<workdir, inputframes, backgroundframes, dirs>>
        /\ NoFailure(logs')
        /\ pc' = "returned"

\* C16: cleanup idempotence: a second cleanup_sequence on a working
\* directory that has been cleaned, whether the root was removed or still
\* exists with other content, logs no error and changes no file and no
\* directory.
C16_CleanupIdempotent == [][SecondCleanupStep]_vars

\* two calls have returned; the first removed the frames and the
\* sub-directories and left the root with a file of another kind
C16_Witness ==
    /\ pc = "returned" /\ i = 2
    /\ NoFailure(stages[1]) /\ NoFailure(stages[2])
    /\ <<"Deleted empty directory", "inputframes", <<>>>> \in stages[1]
    /\ <<"No files found for prefix", "root", <<>>>> \notin stages[1]
    /\ dirs["root"].exists /\ dirs["root"].others = {OtherFile}
    /\ Written(workdir) = {}

\* a file of the sequence: prefix_NNNN.png
IsMember(name) ==
    /\ Len(name) = 4
    /\ name[1] = sequence_prefix /\ name[2] = "_"
    /\ \E k \in DOMAIN Index4 : name[3] = Index4[k]
    /\ name[4] = ".png"

\* C17: the files selected under (directory, prefix) are exactly those
\* named prefix_NNNN.png: cleanup deletes no file of another sequence in
\* the same directory, such as prefix_label_0001.png.
C17_ExactMembership ==
    [][pc = "cleanup_sequence" =>
          \A d \in Dirs : \A n \in Before[d].files :
              ~IsMember(n) => n \in After[d].files]_vars

\* a call of cleanup_sequence and the directories
RemovalStep ==
    pc = "cleanup_sequence" =>
        /\ \A d \in Dirs :
              /\ {n \in Before[d].files : ~Matches(n)}
                    = {n \in After[d].files : ~Matches(n)}
              /\ After[d].exists => Before[d].exists
              /\ (Before[d].exists /\ ~After[d].exists) => listdir(After, d) = {}
        /\ \A d \in SubDirs : After[d].exists => After["root"].exists
        /\ NoFailure(logs') =>
              \A d \in Dirs :
                  /\ get_sequence_files(After, d) = {}
                  /\ After[d].exists => listdir(After, d) # {}
                  /\ (Before[d].exists /\ ~After[d].exists) =>
                        \/ <<"Deleted empty directory", d, <<>>>> \in logs'
                        \/ <<"Deleted empty working directory", d, <<>>>> \in logs'

\* C18: after cleanup_sequence with no deletion failure no matched file
\* remains in the root, inputframes or backgroundframes, and every one of
\* them that the deletions left empty is removed, the sub-directories
\* before the root; a directory that still holds an entry is never
\* removed, its non-matching entries are never deleted, and the root is
\* not removed while a sub-directory remains.
C18_EmptyDirectoriesRemoved == [][RemovalStep]_vars

\* the root held only frames and its two sub-directories; all three are gone
C18_Witness ==
    /\ i = 1 /\ NoFailure(logs)
    /\ <<"Deleted empty directory", "inputframes", <<>>>> \in logs
    /\ <<"Deleted empty directory", "backgroundframes", <<>>>> \in logs
    /\ <<"Deleted empty working directory", "root", <<>>>> \in logs
    /\ <<"No files found for prefix", "root", <<>>>> \notin logs
    /\ \A d \in Dirs : ~dirs[d].exists

(***************************************************************************)
(* Properties of create_negative (under SpecNegative).                     *)
(***************************************************************************)
\* the ITU-R 601-2 luma of a pixel, in units of 1/65536
Luma16(p) == 19595 * p[1] + 38470 * p[2] + 7471 * p[3]

\* C20: create_negative gives a buffer of the source's dimensions in which
\* every RGB channel is 255 minus the channel of the source and the alpha is
\* the luminance of the source pixel as it was before the inversion (the
\* integer nearest to its luma); white gives alpha 255 and black alpha 0.
C20_CreateNegative ==
    (Returned /\ Readable(fg)) =>
        /\ Size(output) = Size(fg)
        /\ DOMAIN output.px = DOMAIN fg.px
        /\ \A k \in DOMAIN fg.px :
              /\ \A c \in 1..3 : output.px[k][c] = 255 - fg.px[k][c]
              /\ 65536 * output.px[k][4] <= Luma16(fg.px[k]) + 32768
              /\ Luma16(fg.px[k]) + 32768 < 65536 * (output.px[k][4] + 1)
              /\ RGB(fg.px[k]) = <<255, 255, 255>> => output.px[k][4] = 255
              /\ RGB(fg.px[k]) = <<0, 0, 0>> => output.px[k][4] = 0

\* a white pixel next to a black one: black with alpha 255 next to white
\* with alpha 0
C20_Witness ==
    /\ Returned /\ Readable(fg) /\ Len(fg.px) > 1
    /\ fg.px[1] = <<255, 255, 255, 255>> /\ fg.px[2] = <<0, 0, 0, 255>>
    /\ output.px[1] = <<0, 0, 0, 255>> /\ output.px[2] = <<255, 255, 255, 0>>


(***************************************************************************)
(* Properties of apply_light (under SpecLight).                            *)
(***************************************************************************)
\* apply_light has returned its result for the negative in fg
LightApplied == pc = "save_image"

\* C21: the brightness correction of apply_light. For an RGBA negative every
\* channel of the result is in 0..255; a pixel of alpha 255 is scaled by
\* exactly 1, so that its channels are 255 minus the composited channel,
\* which is the channel of the negative itself; a pixel of alpha 0 gives 0
\* in every channel, whatever the light colour.
C21_BrightnessCorrection ==
    LightApplied /\ IsRGBA(fg) =>
        /\ output.w = fg.w /\ output.h = fg.h
        /\ DOMAIN output.px = DOMAIN fg.px
        /\ \A k \in DOMAIN fg.px, c \in 1..3 :
              /\ output.px[k][c] \in 0..255
              /\ fg.px[k][4] = 255 =>
                    /\ output.px[k][c] =
                          255 - alpha_composite(keycolor[c], fg.px[k][c], 255)
                    /\ output.px[k][c] = 255 - fg.px[k][c]
              /\ fg.px[k][4] = 0 => output.px[k][c] = 0

\* a negative with an opaque and a transparent pixel under a light that is
\* not black
C21_Witness ==
    /\ LightApplied /\ IsRGBA(fg)
    /\ keycolor # <<0, 0, 0>>
    /\ \E k, l \in DOMAIN fg.px :
          /\ fg.px[k][4] = 255 /\ fg.px[l][4] = 0
          /\ output.px[k] = <<155, 255, 0>> /\ output.px[l] = <<0, 0, 0>>


\* the error apply_light prints for the negative of frame n
InvalidInput(n) == <<"Error: Input must be an RGBA image.", n>>

\* a step of the loop for a negative that is not an RGBA image: apply_light
\* gives no image and reports the input, and the save that follows writes
\* neither index i of the working directory nor the output file; a
\* sequence goes on with the next frame
InvalidInputStep ==
    /\ pc = "apply_light" /\ pc' = "save_image" /\ ~IsRGBA(fg') =>
          output' = NoImage /\ InvalidInput(i) \in logs'
    /\ pc = "save_image" /\ ~IsRGBA(fg) =>
          /\ workdir' = workdir /\ outfile' = outfile
          /\ isdir(args.inputfile) => workdir'[i] = NoImage
          /\ ~isdir(args.inputfile) => outfile' = NoFile
          /\ i' = i + 1
          /\ isdir(args.inputfile) /\ i + 1 < frame_count =>
                pc' = "apply_light"

\* C22: apply_light of a negative that is not an RGBA image fails with the
\* error of an invalid input and gives no image; the frame loop of
\* negative-reimage skips the frame, writes nothing at its index and goes on
\* with the next frame, and a single image gets no output file.
C22_InvalidInputSkipped == [][InvalidInputStep]_vars

\* frame 0 was not an RGBA image and frame 1 was written after it
C22_Witness ==
    /\ pc = "returned" /\ isdir(args.inputfile)
    /\ InvalidInput(0) \in logs
    /\ workdir[0] = NoImage /\ workdir[1] # NoImage

\* a single image that was not an RGBA image
C22_WitnessSingle ==
    /\ pc = "returned" /\ ~isdir(args.inputfile)
    /\ InvalidInput(0) \in logs /\ fg # NoImage
    /\ outfile = NoFile


(***************************************************************************)
(* The order of the stages of a run (under Spec).                          *)
(***************************************************************************)
StageOrder ==
    <<"Init", "ExtractForegroundFrames", "ExtractBackgroundFrames",
      "ProcessFrames", "ReassembleVideo", "Cleanup">>

Rank(stage) == CHOOSE k \in DOMAIN StageOrder : StageOrder[k] = stage

\* the stages entered so far are in the order of StageOrder, none twice
StagesInOrder ==
    /\ \A k \in DOMAIN stages : stages[k] \in Range(StageOrder)
    /\ \A k, l \in DOMAIN stages : k < l => Rank(stages[k]) < Rank(stages[l])
    /\ stages # <<>> => stages[1] = "Init"

\* the optional stages are entered only under their conditions
StagesOnlyWhen ==
    /\ Entered("ExtractForegroundFrames") => args.inputfile.kind = "video"
    /\ Entered("ExtractBackgroundFrames") =>
          args.backgroundsequence.kind = "video"
    /\ Entered("ReassembleVideo") => args.outputfile = "video"
    /\ Entered("Cleanup") => args.cleanup

ExtractionFailures ==
    { <<"Failed to extract frames from input video.", 0>>,
      <<"Failed to extract frames from background video.", 0>> }

\* a frame has been read or written by process()
FrameProcessed ==
    \/ pc = "FrameLoop"
    \/ opened # <<NoImage, NoImage>>
    \/ Written(workdir) # {}
    \/ outfile # NoFile

\* the processing starts after every extraction the run needs has ended
\* without a failure
ExtractionBeforeProcessing ==
    /\ FrameProcessed => Entered("ProcessFrames")
    /\ Entered("ProcessFrames") =>
          /\ args.inputfile.kind = "video" => Entered("ExtractForegroundFrames")
          /\ args.backgroundsequence.kind = "video" =>
                Entered("ExtractBackgroundFrames")
          /\ logs \cap ExtractionFailures = {}

\* a failed extraction is the last stage of its run
FailedExtractionEnds ==
    logs \cap ExtractionFailures # {} =>
        /\ pc = "Done"
        /\ ~Entered("ProcessFrames") /\ ~Entered("ReassembleVideo")
        /\ ~Entered("Cleanup")
        /\ stages[Len(stages)] \in
              {"ExtractForegroundFrames", "ExtractBackgroundFrames"}

\* C23: the stages of a run occur only in the order Init, extraction of the
\* foreground (for a video input), extraction of the background (for a video
\* background), processing, reassembly (for a video output), cleanup (with
\* the flag), and then the run is done; no stage runs twice or before an
\* earlier one, no frame is processed before the extraction has finished,
\* and a failed extraction ends the run before the processing.
C23_StageOrder ==
    /\ StagesInOrder
    /\ StagesOnlyWhen
    /\ ExtractionBeforeProcessing
    /\ FailedExtractionEnds
    /\ pc = "Done" => stages # <<>>

\* a run that went through every stage
C23_Witness == pc = "Done" /\ stages = StageOrder /\ Written(workdir) # {}


(***************************************************************************)
(* The order of the frame files (under SpecNames).                         *)
(***************************************************************************)
\* the frames of a sequence all have an index of at most IndexWidth digits
FourDigits(count) == count <= 10 ^ IndexWidth

\* C24: in a sequence of frames 0..n-1 with n <= 10000, named with the
\* 4-digit zero-padded index, the sorted listing is in the order of the
\* indices: frame k is the k-th file listed, and pairing two such sequences
\* by list position pairs the frames of equal index.
C24_SortedIsIndexOrder ==
    pc = "listed" =>
        /\ FourDigits(args.inputfile.n) => ret[1] = i
        /\ FourDigits(args.backgroundsequence.n) => ret[2] = i
        /\ FourDigits(args.inputfile.n)
              /\ FourDigits(args.backgroundsequence.n) => ret[1] = ret[2]

\* frame 1000 of two sequences of 1001 and of 10000 frames, after the
\* frames 0..999 in both
C24_Witness ==
    /\ pc = "listed" /\ i = 1000 /\ ret = <<1000, 1000>>
    /\ args.inputfile.n = 1001 /\ args.backgroundsequence.n = 10 ^ IndexWidth

\* with one frame more than four digits can number, frame 10000 is listed
\* between the frames 1000 and 1001
C24_BeyondFourDigits ==
    /\ pc = "listed" /\ i = 1001 /\ ret = <<1002, 1001>>
    /\ args.inputfile.n = 10 ^ IndexWidth + 1
    /\ args.backgroundsequence.n = 10 ^ IndexWidth


(***************************************************************************)
(* The output sequence at the start of the reassembly (under Spec).        *)
(***************************************************************************)
\* C25 as claimed: reassembly begins only when the indices of the output
\* sequence are present and contiguous; ReassembleVideo never starts while
\* an index below the highest written index is missing.
C25_OutputContiguous ==
    pc = "ReassembleVideo" =>
        \A k \in Written(workdir) : 0..k \subseteq Written(workdir)

\* C25 as amended: reassembly begins only after the frame loop has gone
\* through every index 0..frame_count-1, and the output sequence then holds
\* exactly the indices whose frame did not fail: an index is missing if and
\* only if a failure of its frame was logged, also below the highest written
\* index; without a frame loop the output sequence is empty.
C25_ReassemblyAfterLoop ==
    pc = "ReassembleVideo" =>
        /\ Written(workdir) \subseteq 0..(frame_count - 1)
        /\ LoopEntered =>
              /\ i = frame_count
              /\ \A k \in 0..(frame_count - 1) :
                    workdir[k] = NoImage <=> FailureLogged(k, logs)
        /\ ~LoopEntered => Written(workdir) = {}

\* reassembly starts on an output sequence whose frame 0 failed and whose
\* frame 1 was written
C25_Witness ==
    /\ pc = "ReassembleVideo" /\ LoopEntered /\ frame_count = 2
    /\ workdir[0] = NoImage /\ FailureLogged(0, logs)
    /\ workdir[1] # NoImage


(***************************************************************************)
(* When the cleanup runs, and what a run deletes (under Spec).             *)
(***************************************************************************)
\* the failures after which main returns
StageFailures == ExtractionFailures \cup {ReportedFailure}

\* a step removes a frame file, another entry, a directory or the output
Deletes ==
    \/ \E k \in DOMAIN workdir : workdir[k] # NoImage /\ workdir'[k] = NoImage
    \/ ~(inputframes \subseteq inputframes')
    \/ ~(backgroundframes \subseteq backgroundframes')
    \/ \E d \in Dirs : dirs[d].exists /\ ~dirs'[d].exists
    \/ \E d \in Dirs : ~(dirs[d].others \subseteq dirs'[d].others)
    \/ outfile # NoFile /\ outfile' = NoFile

\* the cleanup is reached only with the flag and without a failed stage; a
\* step deletes only in the cleanup; a failed stage ends the run, with
\* what it has extracted left where it is
CleanupStep ==
    /\ pc' = "Cleanup" => args.cleanup /\ logs' \cap StageFailures = {}
    /\ Deletes => pc = "Cleanup" /\ args.cleanup
    /\ logs' \cap StageFailures # {} =>
          /\ pc' = "Done"
          /\ "Cleanup" \notin Range(stages')
          /\ ~Deletes
    /\ ~args.cleanup => "Cleanup" \notin Range(stages') /\ ~Deletes

\* C26: the cleanup is executed only when the flag is set and no earlier
\* stage has failed: after a failed extraction of the foreground or of the
\* background, or a failed reassembly, the run ends without deleting any
\* file or directory, flag or not, and the frames already extracted stay;
\* without the flag the run never deletes a file or a directory.
C26_CleanupOnlyAfterSuccess == [][CleanupStep]_vars

\* the background extraction failed with the flag set: the run is over, and
\* the frames of both extractions and their directories are still there
C26_Witness ==
    /\ pc = "Done" /\ args.cleanup
    /\ <<"Failed to extract frames from background video.", 0>> \in logs
    /\ inputframes # {} /\ backgroundframes # {}
    /\ dirs["inputframes"].exists /\ dirs["backgroundframes"].exists
    /\ ~Entered("Cleanup")

\* the reassembly failed with the flag set: the run is over without cleanup
C26_WitnessReassembly ==
    /\ pc = "Done" /\ args.cleanup
    /\ ReportedFailure \in logs
    /\ dirs["root"].exists
    /\ ~Entered("Cleanup")

====
